---- MODULE Spec2Model ----
(***************************************************************************)
(* Huffman codec (src/huffman.py) and the Flask compressor / decompressor  *)
(* request handlers (src/app.py).                                          *)
(*                                                                         *)
(* Symbols are 1..NumSymbols, bits are 0 and 1, a Python str is a          *)
(* sequence, a Python dict is the sequence of its <<key, value>> items in  *)
(* insertion order, None is 0, a HuffmanNode is an index into `nodes`.     *)
(***************************************************************************)
EXTENDS Integers, Sequences, FiniteSets, TLC

\* ------------------------------------------------------------------ bounds
NumSymbols == 4
MaxLen == 4
MaxReuseLen == 2
MaxCalls == 2
MaxFiles == 2
NumRequests == 2

\* --------------------------------------------------------------- constants
ByteBits == 8
None == 0

VARIABLES
    text,           \* the argument of compress (content_str)
    pc,             \* position in compress_file_content / compress / decompress
    calls,          \* number of compress calls made on this HuffmanCoding
    nodes,          \* every HuffmanNode allocated so far, by identity
    heap,           \* self.heap
    codes,          \* self.codes
    reverse_codes,  \* self.reverse_codes
    root,           \* self.root
    frequency,      \* local of compress
    idx,            \* position of build_heap's loop in frequency.items()
    node1,          \* local of build_tree
    node2,          \* local of build_tree
    ret,            \* what compress returned: encoded text, codes, root
    compressed,     \* what compress_file_content returned: bytes, metadata
    dcall,          \* the arguments decompress_file_content was called with
    binary_str,     \* local of decompress_file_content after the slice
    decoded,        \* what decompress_file_content returned
    outcome,        \* how decompress_file_content ended
    form,           \* per request: the route and the filenames the client sent
    rpc,            \* per request: position in its handler
    at,             \* per request: position of the handler's current loop
    uploaded_files, \* per request: the handler's local list of staged paths
    zipf,           \* per request: the file its open ZipFile writes to
    has_output,     \* per request: 'output_zip_path' in locals()
    decompressed_files, \* per request: what process_compressed_zip returned
    response,       \* per request: what the handler sent back
    fs,             \* UPLOAD_FOLDER: path -> file, 0 when no such path
    files           \* the files' contents, by identity

codecVars == <<text, pc, calls, nodes, heap, codes, reverse_codes, root,
               frequency, idx, node1, node2, ret, compressed, dcall,
               binary_str, decoded, outcome>>

appVars == <<form, rpc, at, uploaded_files, zipf, has_output, decompressed_files,
             response, fs, files>>

Symbols == 1..NumSymbols
Bits == {0, 1}

RECURSIVE SeqsUpTo(_, _)
SeqsUpTo(S, n) ==
    IF n = 0 THEN {<<>>}
    ELSE LET shorter == SeqsUpTo(S, n - 1)
         IN shorter \cup {Append(s, x) : s \in {t \in shorter : Len(t) = n - 1}, x \in S}

\* ------------------------------------------------------------ Python dict
EmptyDict == <<>>

Keys(d) == {d[k][1] : k \in DOMAIN d}

Items(d) == {d[k] : k \in DOMAIN d}

HasKey(d, key) == \E k \in DOMAIN d : d[k][1] = key

\* d.get(key, default)
Get(d, key, default) ==
    IF HasKey(d, key)
    THEN d[CHOOSE k \in DOMAIN d : d[k][1] = key][2]
    ELSE default

\* d[key] = value : an existing key keeps its position
Put(d, key, value) ==
    IF HasKey(d, key)
    THEN [k \in DOMAIN d |-> IF d[k][1] = key THEN <<key, value>> ELSE d[k]]
    ELSE Append(d, <<key, value>>)

\* ---------------------------------------------------------- HuffmanNode
\* HuffmanNode.__init__
HuffmanNode(char, freq) == [char |-> char, freq |-> freq, left |-> None, right |-> None]

\* __lt__ with the comparison turned round
NodeLtReversed(ns, a, b) == ns[a].freq > ns[b].freq

\* HuffmanNode.__lt__ : the only ordering heapq uses
NodeLt(ns, a, b) == ns[a].freq < ns[b].freq

\* ----------------------------------------------------------------- heapq
\* Positions are Python's (0-based); h[pos + 1] is heap[pos].
RECURSIVE SiftDown(_, _, _, _, _)
SiftDown(ns, h, startpos, pos, newitem) ==
    LET parentpos == (pos - 1) \div 2
    IN IF pos > startpos /\ NodeLt(ns, newitem, h[parentpos + 1])
       THEN SiftDown(ns, [h EXCEPT ![pos + 1] = h[parentpos + 1]], startpos, parentpos, newitem)
       ELSE [h EXCEPT ![pos + 1] = newitem]

RECURSIVE SiftUp(_, _, _, _, _)
SiftUp(ns, h, startpos, pos, newitem) ==
    LET endpos == Len(h)
        childpos == 2 * pos + 1
        rightpos == childpos + 1
        smaller == IF rightpos < endpos /\ ~NodeLt(ns, h[childpos + 1], h[rightpos + 1])
                   THEN rightpos
                   ELSE childpos
    IN IF childpos < endpos
       THEN SiftUp(ns, [h EXCEPT ![pos + 1] = h[smaller + 1]], startpos, smaller, newitem)
       ELSE SiftDown(ns, [h EXCEPT ![pos + 1] = newitem], startpos, pos, newitem)

\* list.append in place of heapq.heappush
HeapPushNoSift(ns, h, item) == Append(h, item)

\* heapq.heappush(heap, item)
HeapPush(ns, h, item) == SiftDown(ns, Append(h, item), 0, Len(h), item)

\* heapq.heappop(heap) : the item returned and the heap left
HeapPop(ns, h) ==
    LET lastelt == h[Len(h)]
        rest == SubSeq(h, 1, Len(h) - 1)
    IN IF rest # <<>>
       THEN [item |-> rest[1], heap |-> SiftUp(ns, [rest EXCEPT ![1] = lastelt], 0, 0, lastelt)]
       ELSE [item |-> lastelt, heap |-> <<>>]

\* -------------------------------------------------------- HuffmanCoding
\* dict(Counter(text)) : keys in order of first occurrence
RECURSIVE build_frequency_dict(_)
build_frequency_dict(t) ==
    IF t = <<>> THEN EmptyDict
    ELSE LET front == build_frequency_dict(SubSeq(t, 1, Len(t) - 1))
             c == t[Len(t)]
         IN Put(front, c, Get(front, c, 0) + 1)

\* build_codes_helper appending "0" on the way to either child
RECURSIVE build_codes_helper_SameBit(_, _, _, _)
build_codes_helper_SameBit(ns, node, current_code, st) ==
    IF node = None THEN st
    ELSE IF ns[node].char # None
    THEN [codes |-> Put(st.codes, ns[node].char, current_code),
          reverse_codes |-> Put(st.reverse_codes, current_code, ns[node].char)]
    ELSE build_codes_helper_SameBit(ns, ns[node].right, Append(current_code, 0),
             build_codes_helper_SameBit(ns, ns[node].left, Append(current_code, 0), st))

\* build_codes_helper(node, current_code) acting on st = [codes, reverse_codes]
RECURSIVE build_codes_helper(_, _, _, _)
build_codes_helper(ns, node, current_code, st) ==
    IF node = None THEN st
    ELSE IF ns[node].char # None
    THEN [codes |-> Put(st.codes, ns[node].char, current_code),
          reverse_codes |-> Put(st.reverse_codes, current_code, ns[node].char)]
    ELSE build_codes_helper(ns, ns[node].right, Append(current_code, 1),
             build_codes_helper(ns, ns[node].left, Append(current_code, 0), st))

\* build_codes
build_codes(ns, r, st) ==
    IF r = None THEN st
    ELSE IF ns[r].char # None
    THEN [codes |-> Put(st.codes, ns[r].char, <<0>>),
          reverse_codes |-> Put(st.reverse_codes, <<0>>, ns[r].char)]
    ELSE build_codes_helper(ns, r, <<>>, st)

\* encode_text
RECURSIVE encode_text(_, _)
encode_text(cs, t) ==
    IF t = <<>> THEN <<>>
    ELSE Get(cs, t[1], <<>>) \o encode_text(cs, Tail(t))

\* decode_text : the loop over the bits, from (decoded, current_code)
RECURSIVE decode_loop(_, _, _, _)
decode_loop(rc, bits, dec, current_code) ==
    IF bits = <<>> THEN [decoded |-> dec, leftover |-> current_code]
    ELSE LET cur == Append(current_code, bits[1])
         IN IF HasKey(rc, cur)
            THEN decode_loop(rc, Tail(bits), Append(dec, Get(rc, cur, None)), <<>>)
            ELSE decode_loop(rc, Tail(bits), dec, cur)

decode_text(rc, encoded_text) == decode_loop(rc, encoded_text, <<>>, <<>>).decoded

\* ------------------------------------------------- bit packing / unpacking
Zeros(n) == [k \in 1..n |-> 0]

\* int(byte, 2)
RECURSIVE BitsToInt(_)
BitsToInt(b) ==
    IF b = <<>> THEN 0
    ELSE 2 * BitsToInt(SubSeq(b, 1, Len(b) - 1)) + b[Len(b)]

\* format(byte, '08b') read least-significant bit first
ByteToBitsLsbFirst(byte) == [k \in 1..ByteBits |-> (byte \div (2 ^ (k - 1))) % 2]

\* format(byte, '08b')
ByteToBits(byte) == [k \in 1..ByteBits |-> (byte \div (2 ^ (ByteBits - k))) % 2]

\* padding = 8 - len(encoded) % 8, made 0 when already aligned
PaddingForModEight(encoded) == (ByteBits - (Len(encoded) % ByteBits)) % ByteBits

\* padding = 8 - len(encoded) % 8
PaddingFor(encoded) == ByteBits - (Len(encoded) % ByteBits)

\* for i in range(0, len(encoded), 8): append(int(encoded[i:i+8], 2))
RECURSIVE PackBytes(_)
PackBytes(encoded) ==
    IF encoded = <<>> THEN <<>>
    ELSE IF Len(encoded) <= ByteBits THEN <<BitsToInt(encoded)>>
    ELSE <<BitsToInt(SubSeq(encoded, 1, ByteBits))>>
             \o PackBytes(SubSeq(encoded, ByteBits + 1, Len(encoded)))

\* ''.join(format(byte, '08b') for byte in compressed_bytes)
RECURSIVE Expand(_)
Expand(bytes) ==
    IF bytes = <<>> THEN <<>>
    ELSE ByteToBits(bytes[1]) \o Expand(Tail(bytes))

\* binary_str[:-padding] for padding >= 0 : Python reads -0 as 0, so
\* s[:-0] is s[:0], the empty string
StripPadding(s, p) ==
    IF p = 0 THEN <<>>
    ELSE IF p >= Len(s) THEN <<>>
    ELSE SubSeq(s, 1, Len(s) - p)

\* {v: k for k, v in codes.items()}
RECURSIVE InvertCodes(_)
InvertCodes(cs) ==
    IF cs = <<>> THEN EmptyDict
    ELSE LET last == cs[Len(cs)]
         IN Put(InvertCodes(SubSeq(cs, 1, Len(cs) - 1)), last[2], last[1])

\* ---------------------------------------------------------------- state
Inputs(n) == SeqsUpTo(Symbols, n)

NoReturn == [encoded |-> <<>>, codes |-> EmptyDict, root |-> None]

NoRecord == [bytes |-> <<>>, metadata |-> [codes |-> EmptyDict, padding |-> 0, original_size |-> 0]]

NoCall == [bytes |-> <<>>, padding |-> 0, removed |-> 0]

\* HuffmanCoding.__init__ and the entry of compress(t)
InitCodec(texts) ==
    /\ text \in texts
    /\ pc = "compress"
    /\ calls = 1
    /\ nodes = <<>>
    /\ heap = <<>>
    /\ codes = EmptyDict
    /\ reverse_codes = EmptyDict
    /\ root = None
    /\ frequency = EmptyDict
    /\ idx = 1
    /\ node1 = None
    /\ node2 = None
    /\ ret = NoReturn
    /\ compressed = NoRecord
    /\ dcall = NoCall
    /\ binary_str = <<>>
    /\ decoded = <<>>
    /\ outcome = "none"

\* compress, `if not text: return "", {}, None`
compress_empty ==
    /\ pc = "compress"
    /\ text = <<>>
    /\ ret' = [encoded |-> <<>>, codes |-> EmptyDict, root |-> None]
    /\ pc' = "returned"
    /\ UNCHANGED <<text, calls, nodes, heap, codes, reverse_codes, root, frequency,
                   idx, node1, node2, compressed, dcall, binary_str, decoded, outcome, appVars>>

\* compress, frequency = self.build_frequency_dict(text)
compress_frequency ==
    /\ pc = "compress"
    /\ text # <<>>
    /\ frequency' = build_frequency_dict(text)
    /\ idx' = 1
    /\ pc' = "build_heap"
    /\ UNCHANGED <<text, calls, nodes, heap, codes, reverse_codes, root,
                   node1, node2, ret, compressed, dcall, binary_str, decoded, outcome, appVars>>

\* build_heap, one iteration of the loop over frequency.items()
build_heap_push ==
    /\ pc = "build_heap"
    /\ idx <= Len(frequency)
    /\ LET node == Len(nodes) + 1
           ns == Append(nodes, HuffmanNode(frequency[idx][1], frequency[idx][2]))
       IN /\ nodes' = ns
          /\ heap' = HeapPush(ns, heap, node)
    /\ idx' = idx + 1
    /\ UNCHANGED <<text, pc, calls, codes, reverse_codes, root, frequency,
                   node1, node2, ret, compressed, dcall, binary_str, decoded, outcome, appVars>>

\* build_heap, the loop is exhausted
build_heap_end ==
    /\ pc = "build_heap"
    /\ idx > Len(frequency)
    /\ pc' = "build_tree"
    /\ UNCHANGED <<text, calls, nodes, heap, codes, reverse_codes, root, frequency,
                   idx, node1, node2, ret, compressed, dcall, binary_str, decoded, outcome, appVars>>

\* build_tree, `while len(self.heap) > 1: node1 = heapq.heappop(self.heap)`
build_tree_pop1 ==
    /\ pc = "build_tree"
    /\ Len(heap) > 1
    /\ node1' = HeapPop(nodes, heap).item
    /\ heap' = HeapPop(nodes, heap).heap
    /\ pc' = "pop2"
    /\ UNCHANGED <<text, calls, nodes, codes, reverse_codes, root, frequency,
                   idx, node2, ret, compressed, dcall, binary_str, decoded, outcome, appVars>>

\* build_tree, node2 = heapq.heappop(self.heap)
build_tree_pop2 ==
    /\ pc = "pop2"
    /\ node2' = HeapPop(nodes, heap).item
    /\ heap' = HeapPop(nodes, heap).heap
    /\ pc' = "merge"
    /\ UNCHANGED <<text, calls, nodes, codes, reverse_codes, root, frequency,
                   idx, node1, ret, compressed, dcall, binary_str, decoded, outcome, appVars>>

\* build_tree, merged = HuffmanNode(None, node1.freq + node2.freq) and its push
build_tree_merge ==
    /\ pc = "merge"
    /\ LET merged == Len(nodes) + 1
           ns == Append(nodes, [HuffmanNode(None, nodes[node1].freq + nodes[node2].freq)
                                   EXCEPT !.left = node1, !.right = node2])
       IN /\ nodes' = ns
          /\ heap' = HeapPush(ns, heap, merged)
    /\ pc' = "build_tree"
    /\ UNCHANGED <<text, calls, codes, reverse_codes, root, frequency,
                   idx, node1, node2, ret, compressed, dcall, binary_str, decoded, outcome, appVars>>

\* build_tree, self.root = self.heap[0]
build_tree_root ==
    /\ pc = "build_tree"
    /\ Len(heap) <= 1
    /\ root' = heap[1]
    /\ pc' = "build_codes"
    /\ UNCHANGED <<text, calls, nodes, heap, codes, reverse_codes, frequency,
                   idx, node1, node2, ret, compressed, dcall, binary_str, decoded, outcome, appVars>>

\* compress, self.build_codes()
compress_build_codes ==
    /\ pc = "build_codes"
    /\ LET st == build_codes(nodes, root, [codes |-> codes, reverse_codes |-> reverse_codes])
       IN /\ codes' = st.codes
          /\ reverse_codes' = st.reverse_codes
    /\ pc' = "encode"
    /\ UNCHANGED <<text, calls, nodes, heap, root, frequency,
                   idx, node1, node2, ret, compressed, dcall, binary_str, decoded, outcome, appVars>>

\* compress, encoded_text = self.encode_text(text); return encoded_text, self.codes, self.root
compress_encode ==
    /\ pc = "encode"
    /\ ret' = [encoded |-> encode_text(codes, text), codes |-> codes, root |-> root]
    /\ pc' = "returned"
    /\ UNCHANGED <<text, calls, nodes, heap, codes, reverse_codes, root, frequency,
                   idx, node1, node2, compressed, dcall, binary_str, decoded, outcome, appVars>>

\* compress_file_content after huffman.compress returned: pad, pack, metadata
compress_file_content ==
    /\ pc = "returned"
    /\ LET padding == PaddingFor(ret.encoded)
           encoded == ret.encoded \o Zeros(padding)
       IN compressed' = [bytes |-> PackBytes(encoded),
                         metadata |-> [codes |-> ret.codes,
                                       padding |-> padding,
                                       original_size |-> Len(text)]]
    /\ pc' = "packed"
    /\ UNCHANGED <<text, calls, nodes, heap, codes, reverse_codes, root, frequency,
                   idx, node1, node2, ret, dcall, binary_str, decoded, outcome, appVars>>

\* decompress_file_content(compressed_bytes, metadata) on the record just
\* produced, on that record with its last `removed` bytes cut off, and with
\* any padding count in the metadata
decompress_file_content ==
    /\ pc = "packed"
    /\ \E removed \in 0..1 :
       \E bytes \in {SubSeq(compressed.bytes, 1, Len(compressed.bytes) - removed)} :
       \E padding \in 0..(ByteBits * Len(bytes) + 1) :
          LET stripped == StripPadding(Expand(bytes), padding)
          IN /\ dcall' = [bytes |-> bytes, padding |-> padding, removed |-> removed]
             /\ binary_str' = stripped
             /\ decoded' = decode_text(InvertCodes(compressed.metadata.codes), stripped)
             /\ outcome' = "returned"
    /\ pc' = "done"
    /\ UNCHANGED <<text, calls, nodes, heap, codes, reverse_codes, root, frequency,
                   idx, node1, node2, ret, compressed, appVars>>

\* a further compress(t) on the same HuffmanCoding instance
compress_again ==
    /\ pc = "returned"
    /\ calls < MaxCalls
    /\ \E t \in Inputs(MaxReuseLen) : text' = t
    /\ calls' = calls + 1
    /\ pc' = "compress"
    /\ UNCHANGED <<nodes, heap, codes, reverse_codes, root, frequency,
                   idx, node1, node2, ret, compressed, dcall, binary_str, decoded, outcome, appVars>>

\* ------------------------------------------------------------ src/app.py
Requests == 1..NumRequests

NoFile == 0

\* the filenames a client may send
UploadNames == {"a.txt", "../a.txt", "c.exe"}

ArchiveNames == {"compressed_files.zip", "x.zip"}

\* filename.rsplit('.', 1)[1].lower()
Extension(filename) ==
    CASE filename \in {"a.txt", "../a.txt"} -> "txt"
      [] filename = "c.exe" -> "exe"
      [] filename \in {"compressed_files.zip", "decompressed_files.zip", "x.zip"} -> "zip"

ALLOWED_EXTENSIONS == {"txt", "pdf", "png", "jpg", "jpeg", "gif", "docx", "csv"}

allowed_file(filename) == Extension(filename) \in ALLOWED_EXTENSIONS

\* werkzeug's secure_filename drops the directory part
secure_filename(filename) == IF filename = "../a.txt" THEN "a.txt" ELSE filename

\* os.path.join(app.config['UPLOAD_FOLDER'], name) : paths are named by `name`
Paths == {"a.txt", "c.exe", "compressed_files.zip", "decompressed_files.zip", "x.zip"}

compressed_zip == "compressed_files.zip"

decompressed_zip == "decompressed_files.zip"

\* what a request posts: its route, its filenames in order and, for an
\* uploaded archive, the number of .huf/.meta pairs in it
Forms ==
    {[route |-> "compressor", names |-> n, pairs |-> 0] : n \in SeqsUpTo(UploadNames, MaxFiles)}
    \cup {[route |-> "decompressor", names |-> <<n>>, pairs |-> q] : n \in ArchiveNames, q \in 0..1}

\* the bytes request r sent as the file called `name`
Blob(r, name) == [member |-> <<name>>, of |-> r]

\* the archive request r uploads to the decompressor
UploadedArchive(r) ==
    IF form[r].pairs = 0 THEN {}
    ELSE {[member |-> <<"f", "huf">>, of |-> r], [member |-> <<"f", "meta">>, of |-> r]}

NoResponse == [kind |-> "none", data |-> {}]

Redirect == [kind |-> "redirect", data |-> {}]

Exists(path) == fs[path] # NoFile

\* open(path, 'w') : an existing file is truncated, else a new one is made.
\* The file opened and the two maps after the call.
OpenForWrite(path, data, closed) ==
    IF Exists(path)
    THEN [file |-> fs[path],
          fs |-> fs,
          files |-> [files EXCEPT ![fs[path]] = [data |-> data, closed |-> closed]]]
    ELSE [file |-> Len(files) + 1,
          fs |-> [fs EXCEPT ![path] = Len(files) + 1],
          files |-> Append(files, [data |-> data, closed |-> closed])]

\* `if os.path.exists(p): os.remove(p)` for every p in ps
RemoveAll(f, ps) == [p \in Paths |-> IF p \in ps THEN NoFile ELSE f[p]]

\* the state of the application with no request in it
AppIdle(forms) ==
    /\ form \in [Requests -> forms]
    /\ rpc = [r \in Requests |-> "start"]
    /\ at = [r \in Requests |-> 1]
    /\ uploaded_files = [r \in Requests |-> <<>>]
    /\ zipf = [r \in Requests |-> NoFile]
    /\ has_output = [r \in Requests |-> FALSE]
    /\ decompressed_files = [r \in Requests |-> {}]
    /\ response = [r \in Requests |-> NoResponse]
    /\ fs = [p \in Paths |-> NoFile]
    /\ files = <<>>

\* compressor: `if not files or all(f.filename == '' ...)`, no file was sent
compressor_no_files(r) ==
    /\ rpc[r] = "start"
    /\ form[r].route = "compressor"
    /\ form[r].names = <<>>
    /\ response' = [response EXCEPT ![r] = Redirect]
    /\ rpc' = [rpc EXCEPT ![r] = "done"]
    /\ UNCHANGED <<form, at, uploaded_files, zipf, has_output, decompressed_files,
                   fs, files, codecVars>>

\* compressor: one iteration of `for file in files`, file.save or flash
compressor_save(r) ==
    /\ rpc[r] = "start"
    /\ form[r].route = "compressor"
    /\ at[r] <= Len(form[r].names)
    /\ LET name == form[r].names[at[r]]
           filename == secure_filename(name)
           saved == OpenForWrite(filename, {Blob(r, name)}, TRUE)
       IN IF allowed_file(name)
          THEN /\ fs' = saved.fs
               /\ files' = saved.files
               /\ uploaded_files' = [uploaded_files EXCEPT ![r] = Append(@, filename)]
          ELSE UNCHANGED <<fs, files, uploaded_files>>
    /\ at' = [at EXCEPT ![r] = @ + 1]
    /\ UNCHANGED <<form, rpc, zipf, has_output, decompressed_files, response, codecVars>>

\* compressor: `if not uploaded_files: ... return redirect`
compressor_none_valid(r) ==
    /\ rpc[r] = "start"
    /\ form[r].route = "compressor"
    /\ form[r].names # <<>>
    /\ at[r] > Len(form[r].names)
    /\ uploaded_files[r] = <<>>
    /\ response' = [response EXCEPT ![r] = Redirect]
    /\ rpc' = [rpc EXCEPT ![r] = "done"]
    /\ UNCHANGED <<form, at, uploaded_files, zipf, has_output, decompressed_files,
                   fs, files, codecVars>>

\* compressor: zipfile.ZipFile(zip_filepath, 'w') on 'compressed_files.zip'
compressor_open_zip(r) ==
    /\ rpc[r] = "start"
    /\ form[r].route = "compressor"
    /\ at[r] > Len(form[r].names)
    /\ uploaded_files[r] # <<>>
    /\ LET opened == OpenForWrite(compressed_zip, {}, FALSE)
       IN /\ fs' = opened.fs
          /\ files' = opened.files
          /\ zipf' = [zipf EXCEPT ![r] = opened.file]
    /\ at' = [at EXCEPT ![r] = 1]
    /\ rpc' = [rpc EXCEPT ![r] = "zip"]
    /\ UNCHANGED <<form, uploaded_files, has_output, decompressed_files, response, codecVars>>

\* compress_file_content(content, original_filename) as app.py calls it:
\* the .huf and .meta entries made from the content read
CompressedPair(base, content) ==
    {[member |-> <<base, ext>>, of |-> b.of] : ext \in {"huf", "meta"}, b \in content}

\* compressor: one iteration of `for filepath, original_filename in
\* uploaded_files`; open(filepath) raises when the staged file is gone, and
\* leaving the with block closes the archive
compressor_add(r) ==
    /\ rpc[r] = "zip"
    /\ at[r] <= Len(uploaded_files[r])
    /\ LET filepath == uploaded_files[r][at[r]]
       IN IF Exists(filepath)
          THEN /\ files' = [files EXCEPT ![zipf[r]].data =
                               @ \cup CompressedPair(filepath, files[fs[filepath]].data)]
               /\ at' = [at EXCEPT ![r] = @ + 1]
               /\ UNCHANGED <<rpc, zipf>>
          ELSE /\ files' = [files EXCEPT ![zipf[r]].closed = TRUE]
               /\ zipf' = [zipf EXCEPT ![r] = NoFile]
               /\ rpc' = [rpc EXCEPT ![r] = "except"]
               /\ UNCHANGED at
    /\ UNCHANGED <<form, uploaded_files, has_output, decompressed_files, response, fs, codecVars>>

\* compressor: the with block ends, the archive is closed
compressor_close_zip(r) ==
    /\ rpc[r] = "zip"
    /\ at[r] > Len(uploaded_files[r])
    /\ files' = [files EXCEPT ![zipf[r]].closed = TRUE]
    /\ zipf' = [zipf EXCEPT ![r] = NoFile]
    /\ at' = [at EXCEPT ![r] = 1]
    /\ rpc' = [rpc EXCEPT ![r] = "cleanup"]
    /\ UNCHANGED <<form, uploaded_files, has_output, decompressed_files, response, fs, codecVars>>

\* compressor: one iteration of the clean-up of the staged uploads
compressor_cleanup(r) ==
    /\ rpc[r] = "cleanup"
    /\ at[r] <= Len(uploaded_files[r])
    /\ fs' = RemoveAll(fs, {uploaded_files[r][at[r]]})
    /\ at' = [at EXCEPT ![r] = @ + 1]
    /\ UNCHANGED <<form, rpc, uploaded_files, zipf, has_output, decompressed_files,
                   response, files, codecVars>>

\* compressor: send_file(zip_filepath), which raises when the file is gone
compressor_send(r) ==
    /\ rpc[r] = "cleanup"
    /\ at[r] > Len(uploaded_files[r])
    /\ IF Exists(compressed_zip)
       THEN /\ response' = [response EXCEPT ![r] =
                               [kind |-> "file", data |-> files[fs[compressed_zip]].data]]
            /\ rpc' = [rpc EXCEPT ![r] = "done"]
       ELSE /\ rpc' = [rpc EXCEPT ![r] = "except"]
            /\ UNCHANGED response
    /\ UNCHANGED <<form, at, uploaded_files, zipf, has_output, decompressed_files,
                   fs, files, codecVars>>

\* compressor: the except branch removes the archive and the staged uploads
compressor_except(r) ==
    /\ rpc[r] = "except"
    /\ form[r].route = "compressor"
    /\ fs' = RemoveAll(fs, {compressed_zip} \cup {uploaded_files[r][j] : j \in DOMAIN uploaded_files[r]})
    /\ response' = [response EXCEPT ![r] = Redirect]
    /\ rpc' = [rpc EXCEPT ![r] = "done"]
    /\ UNCHANGED <<form, at, uploaded_files, zipf, has_output, decompressed_files,
                   files, codecVars>>

\* decompressor: file.save(zip_filepath) under the client's filename
decompressor_save(r) ==
    /\ rpc[r] = "start"
    /\ form[r].route = "decompressor"
    /\ LET zip_filepath == secure_filename(form[r].names[1])
           saved == OpenForWrite(zip_filepath, UploadedArchive(r), TRUE)
       IN /\ fs' = saved.fs
          /\ files' = saved.files
          /\ uploaded_files' = [uploaded_files EXCEPT ![r] = <<zip_filepath>>]
    /\ rpc' = [rpc EXCEPT ![r] = "process"]
    /\ UNCHANGED <<form, at, zipf, has_output, decompressed_files, response, codecVars>>

\* process_compressed_zip(zip_filepath, folder) : one item for each entry
\* name that has both its .huf and its .meta entry
process_compressed_zip(data) ==
    {[filename |-> e.member[1], of |-> e.of] :
        e \in {x \in data : /\ Len(x.member) = 2
                            /\ x.member[2] = "huf"
                            /\ \E y \in data : y.member = <<x.member[1], "meta">>}}

\* decompressor: decompressed_files = process_compressed_zip(...), which
\* raises on a missing or unfinished archive; an empty result returns at once
decompressor_process(r) ==
    /\ rpc[r] = "process"
    /\ LET zip_filepath == uploaded_files[r][1]
       IN IF ~Exists(zip_filepath) \/ ~files[fs[zip_filepath]].closed
          THEN /\ rpc' = [rpc EXCEPT ![r] = "except"]
               /\ UNCHANGED <<decompressed_files, response>>
          ELSE IF process_compressed_zip(files[fs[zip_filepath]].data) = {}
          THEN /\ response' = [response EXCEPT ![r] = Redirect]
               /\ rpc' = [rpc EXCEPT ![r] = "done"]
               /\ UNCHANGED decompressed_files
          ELSE /\ decompressed_files' = [decompressed_files EXCEPT ![r] =
                                           process_compressed_zip(files[fs[zip_filepath]].data)]
               /\ rpc' = [rpc EXCEPT ![r] = "output"]
               /\ UNCHANGED response
    /\ UNCHANGED <<form, at, uploaded_files, zipf, has_output, fs, files, codecVars>>

\* decompressor: zipfile.ZipFile(output_zip_path, 'w') on 'decompressed_files.zip'
decompressor_open_zip(r) ==
    /\ rpc[r] = "output"
    /\ LET opened == OpenForWrite(decompressed_zip, {}, FALSE)
       IN /\ fs' = opened.fs
          /\ files' = opened.files
          /\ zipf' = [zipf EXCEPT ![r] = opened.file]
    /\ has_output' = [has_output EXCEPT ![r] = TRUE]
    /\ rpc' = [rpc EXCEPT ![r] = "write"]
    /\ UNCHANGED <<form, at, uploaded_files, decompressed_files, response, codecVars>>

\* decompressor: `for item in decompressed_files: zipf.writestr(...)` and
\* the end of the with block
decompressor_write(r) ==
    /\ rpc[r] = "write"
    /\ files' = [files EXCEPT ![zipf[r]] =
                    [data |-> @.data \cup {[member |-> <<i.filename>>, of |-> i.of] :
                                              i \in decompressed_files[r]},
                     closed |-> TRUE]]
    /\ zipf' = [zipf EXCEPT ![r] = NoFile]
    /\ rpc' = [rpc EXCEPT ![r] = "cleanup"]
    /\ UNCHANGED <<form, at, uploaded_files, has_output, decompressed_files, response,
                   fs, codecVars>>

\* decompressor: the uploaded archive is removed
decompressor_cleanup(r) ==
    /\ rpc[r] = "cleanup"
    /\ form[r].route = "decompressor"
    /\ fs' = RemoveAll(fs, {uploaded_files[r][1]})
    /\ rpc' = [rpc EXCEPT ![r] = "send"]
    /\ UNCHANGED <<form, at, uploaded_files, zipf, has_output, decompressed_files,
                   response, files, codecVars>>

\* decompressor: send_file(output_zip_path), which raises when the file is gone
decompressor_send(r) ==
    /\ rpc[r] = "send"
    /\ IF Exists(decompressed_zip)
       THEN /\ response' = [response EXCEPT ![r] =
                               [kind |-> "file", data |-> files[fs[decompressed_zip]].data]]
            /\ rpc' = [rpc EXCEPT ![r] = "done"]
       ELSE /\ rpc' = [rpc EXCEPT ![r] = "except"]
            /\ UNCHANGED response
    /\ UNCHANGED <<form, at, uploaded_files, zipf, has_output, decompressed_files,
                   fs, files, codecVars>>

\* decompressor: the except branch removes what its locals name
decompressor_except(r) ==
    /\ rpc[r] = "except"
    /\ form[r].route = "decompressor"
    /\ fs' = RemoveAll(fs, {uploaded_files[r][1]}
                           \cup (IF has_output[r] THEN {decompressed_zip} ELSE {}))
    /\ response' = [response EXCEPT ![r] = Redirect]
    /\ rpc' = [rpc EXCEPT ![r] = "done"]
    /\ UNCHANGED <<form, at, uploaded_files, zipf, has_output, decompressed_files,
                   files, codecVars>>

CompressSteps ==
    \/ compress_empty
    \/ compress_frequency
    \/ build_heap_push
    \/ build_heap_end
    \/ build_tree_pop1
    \/ build_tree_pop2
    \/ build_tree_merge
    \/ build_tree_root
    \/ compress_build_codes
    \/ compress_encode

vars == <<codecVars, appVars>>

NoForm == [route |-> "none", names |-> <<>>, pairs |-> 0]

Init == InitCodec(Inputs(MaxLen)) /\ AppIdle({NoForm})

Next ==
    \/ CompressSteps
    \/ compress_file_content
    \/ decompress_file_content

\* compress_file_content(s) followed by decompress_file_content
Spec == Init /\ [][Next]_vars

InitReuse == InitCodec(Inputs(MaxReuseLen)) /\ AppIdle({NoForm})

NextReuse ==
    \/ CompressSteps
    \/ compress_again

\* successive compress calls on one HuffmanCoding instance
SpecReuse == InitReuse /\ [][NextReuse]_vars

InitApp == InitCodec({<<>>}) /\ AppIdle(Forms)

NextApp ==
    \/ \E r \in Requests : compressor_no_files(r)
    \/ \E r \in Requests : compressor_save(r)
    \/ \E r \in Requests : compressor_none_valid(r)
    \/ \E r \in Requests : compressor_open_zip(r)
    \/ \E r \in Requests : compressor_add(r)
    \/ \E r \in Requests : compressor_close_zip(r)
    \/ \E r \in Requests : compressor_cleanup(r)
    \/ \E r \in Requests : compressor_send(r)
    \/ \E r \in Requests : compressor_except(r)
    \/ \E r \in Requests : decompressor_save(r)
    \/ \E r \in Requests : decompressor_process(r)
    \/ \E r \in Requests : decompressor_open_zip(r)
    \/ \E r \in Requests : decompressor_write(r)
    \/ \E r \in Requests : decompressor_cleanup(r)
    \/ \E r \in Requests : decompressor_send(r)
    \/ \E r \in Requests : decompressor_except(r)

\* concurrent POST requests to /compressor and /decompressor
SpecApp == InitApp /\ [][NextApp]_vars

\* ------------------------------------------- compress on a new instance
\* build_heap on heap h, from position k of the items
RECURSIVE build_heap(_, _, _, _)
build_heap(freq, k, ns, h) ==
    IF k > Len(freq) THEN [nodes |-> ns, heap |-> h]
    ELSE LET ns2 == Append(ns, HuffmanNode(freq[k][1], freq[k][2]))
         IN build_heap(freq, k + 1, ns2, HeapPush(ns2, h, Len(ns2)))

\* build_tree : the whole while loop
RECURSIVE build_tree(_, _)
build_tree(ns, h) ==
    IF Len(h) > 1
    THEN LET p1 == HeapPop(ns, h)
             p2 == HeapPop(ns, p1.heap)
             ns2 == Append(ns, [HuffmanNode(None, ns[p1.item].freq + ns[p2.item].freq)
                                   EXCEPT !.left = p1.item, !.right = p2.item])
         IN build_tree(ns2, HeapPush(ns2, p2.heap, Len(ns2)))
    ELSE [nodes |-> ns, root |-> h[1]]

\* the tree below node n, without node identities
RECURSIVE TreeOf(_, _)
TreeOf(ns, n) ==
    IF n = None THEN <<>>
    ELSE <<ns[n].char, ns[n].freq, TreeOf(ns, ns[n].left), TreeOf(ns, ns[n].right)>>

\* HuffmanCoding().compress(t) : encoded text, code table, tree
FreshCompress(t) ==
    IF t = <<>> THEN [encoded |-> <<>>, codes |-> {}, tree |-> <<>>]
    ELSE LET hp == build_heap(build_frequency_dict(t), 1, <<>>, <<>>)
             tr == build_tree(hp.nodes, hp.heap)
             st == build_codes(tr.nodes, tr.root, [codes |-> EmptyDict, reverse_codes |-> EmptyDict])
         IN [encoded |-> encode_text(st.codes, t),
             codes |-> Items(st.codes),
             tree |-> TreeOf(tr.nodes, tr.root)]

\* ================================================================ claims
Range(s) == {s[k] : k \in DOMAIN s}

IsPrefix(a, b) == Len(a) <= Len(b) /\ SubSeq(b, 1, Len(a)) = a

AfterBuildCodes == pc \in {"encode", "returned", "packed", "done"}

Faithful == dcall.removed = 0 /\ dcall.padding = compressed.metadata.padding

\* C1: decompress_file_content applied to the buffer and metadata that
\* compress_file_content(s) returned gives back exactly s, for the empty
\* input, one symbol repeated, and several distinct symbols.
RoundTrip == (pc = "done" /\ Faithful) => (outcome = "returned" /\ decoded = text)

RoundTripWitness ==
    /\ pc = "done"
    /\ Faithful
    /\ Cardinality(Range(text)) >= 3
    /\ Len(text) > Cardinality(Range(text))
    /\ decoded = text

\* C2: for a non-empty input the code table has one entry per distinct
\* input symbol, each a non-empty string of bits ("0" for the lone symbol of
\* a one-symbol input), and no code is a prefix of the code of another symbol.
PrefixFree ==
    (AfterBuildCodes /\ text # <<>>) =>
        /\ Keys(codes) = Range(text)
        /\ Len(codes) = Cardinality(Range(text))
        /\ \A k \in DOMAIN codes : codes[k][2] # <<>> /\ Range(codes[k][2]) \subseteq Bits
        /\ Cardinality(Range(text)) = 1 => codes = <<<<text[1], <<0>>>>>>
        /\ \A j, k \in DOMAIN codes : j # k => ~IsPrefix(codes[j][2], codes[k][2])

PrefixFreeWitness ==
    /\ pc = "encode"
    /\ Len(codes) = 3
    /\ \E j, k \in DOMAIN codes : Len(codes[j][2]) < Len(codes[k][2])

\* C3: with at least two distinct symbols, a symbol that occurs strictly
\* more often than another never has the strictly longer code.
WeightOrdering ==
    (AfterBuildCodes /\ Cardinality(Range(text)) >= 2) =>
        \A x, y \in Range(text) :
            Get(build_frequency_dict(text), x, 0) < Get(build_frequency_dict(text), y, 0)
                => Len(Get(codes, y, <<>>)) <= Len(Get(codes, x, <<>>))

WeightOrderingWitness ==
    /\ pc = "encode"
    /\ \E x, y \in Range(text) :
          /\ Get(build_frequency_dict(text), x, 0) < Get(build_frequency_dict(text), y, 0)
          /\ Len(Get(codes, y, <<>>)) < Len(Get(codes, x, <<>>))
    /\ \E x, y \in Range(text) :
          /\ x # y
          /\ Get(build_frequency_dict(text), x, 0) = Get(build_frequency_dict(text), y, 0)

\* C4: for a non-empty input, decompress_file_content called on the
\* compressed buffer without its last byte, with the metadata unchanged,
\* raises a content-integrity error and returns nothing.
TruncationDetected ==
    (pc = "done" /\ text # <<>> /\ dcall.removed = 1
        /\ dcall.padding = compressed.metadata.padding) => outcome = "raised"

\* C5: compress_file_content on the empty input builds no tree and returns
\* a buffer of zero bytes with original_size = 0, padding = 0, codes = {}.
EmptyInput ==
    (pc \in {"packed", "done"} /\ text = <<>>) =>
        /\ nodes = <<>>
        /\ compressed.bytes = <<>>
        /\ compressed.metadata = [codes |-> EmptyDict, padding |-> 0, original_size |-> 0]

\* C6: for a buffer of n bytes and a padding p with 0 <= p <= 8n,
\* decompress_file_content decodes exactly the first 8n - p bits of the
\* MSB-first expansion of the buffer; with p > 8n it fails with an error.
UnpackExact ==
    pc = "done" =>
        LET n == Len(dcall.bytes)
            p == dcall.padding
            kept == SubSeq(Expand(dcall.bytes), 1, ByteBits * n - p)
        IN IF p <= ByteBits * n
           THEN /\ outcome = "returned"
                /\ binary_str = kept
                /\ decoded = decode_text(InvertCodes(compressed.metadata.codes), kept)
           ELSE outcome = "raised"

\* C7: with L the encoded bit length, compress_file_content returns
\* original_size = len(s) and padding = 8 - (L mod 8), between 1 and 8 and
\* equal to 8 exactly when 8 divides L; the buffer has (L + padding) / 8
\* bytes, begins with the encoded bits and ends with `padding` zero bits.
PackMetadata ==
    pc \in {"packed", "done"} =>
        LET L == Len(ret.encoded)
            md == compressed.metadata
            bits == Expand(compressed.bytes)
        IN /\ md.original_size = Len(text)
           /\ md.padding = ByteBits - (L % ByteBits)
           /\ md.padding \in 1..ByteBits
           /\ (md.padding = ByteBits) <=> (L % ByteBits = 0)
           /\ (L + md.padding) % ByteBits = 0
           /\ Len(compressed.bytes) * ByteBits = L + md.padding
           /\ \A k \in DOMAIN compressed.bytes : compressed.bytes[k] \in 0..(2 ^ ByteBits - 1)
           /\ SubSeq(bits, 1, L) = ret.encoded
           /\ SubSeq(bits, L + 1, Len(bits)) = Zeros(md.padding)

PackMetadataWitness ==
    /\ pc = "packed"
    /\ Len(ret.encoded) = ByteBits
    /\ compressed.metadata.padding = ByteBits
    /\ Len(compressed.bytes) = 2

\* C8: every compress(s) on one HuffmanCoding instance returns the encoded
\* text, code table and tree that compress(s) returns on a new instance.
FreshPerCall ==
    pc = "returned" =>
        /\ ret.encoded = FreshCompress(text).encoded
        /\ Items(ret.codes) = FreshCompress(text).codes
        /\ TreeOf(nodes, ret.root) = FreshCompress(text).tree

\* Node identities count the pushes: every node is pushed once, right after
\* it is made, so the node pushed earliest is the one with the least identity.
MinWeight(h) == {n \in Range(h) : \A m \in Range(h) : nodes[n].freq <= nodes[m].freq}

EarliestMin(h) == CHOOSE n \in MinWeight(h) : \A m \in MinWeight(h) : n <= m

AboutToPop == (pc = "build_tree" /\ Len(heap) > 1) \/ pc = "pop2"

HeldPaths(r) ==
    IF rpc[r] = "done" THEN {}
    ELSE Range(uploaded_files[r])
         \cup (IF form[r].route = "compressor" /\ rpc[r] \in {"zip", "cleanup", "except"}
               THEN {compressed_zip} ELSE {})
         \cup (IF has_output[r] THEN {decompressed_zip} ELSE {})

\* the archive request r is due, made from the files it sent and no others
OwnArchive(r) ==
    IF form[r].route = "compressor"
    THEN {[member |-> <<secure_filename(form[r].names[j]), ext>>, of |-> r] :
             j \in {i \in DOMAIN form[r].names : allowed_file(form[r].names[i])},
             ext \in {"huf", "meta"}}
    ELSE {[member |-> <<i.filename>>, of |-> r] : i \in process_compressed_zip(UploadedArchive(r))}

UniqueNames == \A r, q \in Requests : r # q => HeldPaths(r) \cap HeldPaths(q) = {}

OwnEntriesOnly == \A r \in Requests : response[r].kind = "file" => response[r].data = OwnArchive(r)

AllReleased == (\A r \in Requests : rpc[r] = "done") => \A p \in Paths : ~Exists(p)

\* C10: concurrent requests stage their uploads and write their archives
\* under names no other request in flight uses, the archive a request gets
\* back holds exactly the entries made from its own files, and once the
\* requests have ended every staged file and archive has been deleted.
RequestIsolation == UniqueNames /\ OwnEntriesOnly /\ AllReleased

====
